---- MODULE Spec2Model ----
(***************************************************************************)
(* Progressive loading core of the-ultimate-pokedex.                       *)
(*                                                                         *)
(* One behaviour is one listing session: the progressive single-stream     *)
(* loader of one of the listing pages, or one call of the batched grouped  *)
(* loader loadPokemonBatch.  JavaScript runs every continuation to its     *)
(* next await, so an action is the synchronous code between two awaits.    *)
(* `await fetch(u)` followed by `await r.json()` is one request here: the  *)
(* code looks at no shared state between the two.  A response whose status *)
(* is not OK carries no JSON record, so json() on it rejects.  The remote  *)
(* API answers a resource url with the record whose id the url embeds; for *)
(* a url that embeds none it may answer with any record id.                *)
(*                                                                         *)
(* Spec follows one progressive loader, or one call of loadPokemonBatch    *)
(* with arguments of any kind.  In Spec state updates are taken to be      *)
(* rendered, and the effects that depend on them run, before the next      *)
(* request settles or the next signal arrives; within one lifecycle the    *)
(* index endpoint answers every fetch with the same listing.               *)
(*                                                                         *)
(* HomeSpec follows the Home of the paged listing: loadInitialData, then   *)
(* loadMore as often as the observer calls it.  Render is a step of its    *)
(* own there: the observer's callback and loadMore read the state values   *)
(* of the render in which the observer effect last ran.                    *)
(*                                                                         *)
(* ListPageSpec is one mount of a list page with every fetch settling.     *)
(* ExtractSpec is one call of the identifier extraction on any url.        *)
(* DetailSpec follows PokemonDetail and MoveDetail, LocationSpec follows   *)
(* LocationDetail, over changes of the name parameter.                     *)
(***************************************************************************)
EXTENDS Integers, Sequences, FiniteSets, TLC

\* ---------------------------------------------------------------- bounds
MaxIndex == 3        \* longest index listing the remote API returns
MaxId == 2           \* largest numeric id of a resource
MaxVarieties == 2    \* most varieties one species response lists
MaxTarget == 2       \* largest targetCount passed to loadPokemonBatch
MaxIndexFetches == 2 \* index fetches after which a lifecycle is followed no further
MaxPath == 3         \* most path segments of a url handed to the id extraction
MaxSessions == 3     \* effect runs after which a detail page is followed no further
MaxLocationSessions == 2 \* effect runs after which LocationDetail is followed no further
MaxAreas == 2        \* most areas a location response lists
MaxCalls == 3        \* loadPokemonBatch calls after which a listing is followed no further

\* --------------------------------------------------------------- loaders
\* PokemonListPage.loadPokemon, MovesListPage.loadMoves and
\* LocationsListPage.loadLocations are the same code over three resource
\* kinds; PokemonListPage stands for the three.
CancellableListPages == {"PokemonListPage"}

\* Home.loadLocations and Home.loadMoves are the same code over two resource
\* kinds; HomeLoadLocations stands for both.
HomeTabLoaders == {"HomeLoadLocations"}

StreamLoaders ==
    CancellableListPages \cup {"GenerationDetailPage", "HomeLoadAllData"}
        \cup HomeTabLoaders

BatchLoader == "loadPokemonBatch"

\* the path segment name each loader's comparator looks for
KindOf(l) ==
    CASE l \in {"PokemonListPage", "HomeLoadAllData"} -> "pokemon"
      [] l = "HomeLoadLocations" -> "location"
      [] OTHER -> "pokemon-species"

\* `let cancelled = false` and a cleanup that sets it
HasCancellation(l) == l \in CancellableListPages \cup {"GenerationDetailPage"}

\* `if (cancelled) break;` at the head of the for-of body
ChecksCancelledBeforeFetchNever(l) == FALSE

ChecksCancelledBeforeFetch(l) == HasCancellation(l)

\* `if (cancelled) break;` between the parsed response and the state update
ChecksCancelledAfterFetch(l) == l = "GenerationDetailPage"

CatchesItemFailureNever(l) == FALSE

\* the for-of body is wrapped in try { } catch { }
CatchesItemFailure(l) == HasCancellation(l)

\* `if (!response.ok) continue;`
ChecksOk(l) == HasCancellation(l)

\* the index fetch is inside try { } catch (e) { setError(...) }
CatchesIndexFailure(l) == HasCancellation(l)

\* ------------------------------------------------------------------ urls
\* A url is its path: the segments between slashes, and whether a slash
\* follows the last one.  A segment is a word followed by decimal digits;
\* it is all digits when the word is empty and there is a digit.
Seg(w, d) == [word |-> w, digits |-> d]

IsDigits(s) == s.word = "" /\ s.digits # <<>>

RECURSIVE ParseInt(_)
\* parseInt(str, 10) on a string of decimal digits
ParseInt(d) ==
    IF d = <<>> THEN 0 ELSE 10 * ParseInt(SubSeq(d, 1, Len(d) - 1)) + d[Len(d)]

MatchPositionsNoSlash(url, kind) ==
    {k \in 1..(Len(url.path) - 1) :
        /\ url.path[k] = Seg(kind, <<>>)
        /\ IsDigits(url.path[k + 1])}

\* url.match(/\/<kind>\/(\d+)\//): the leftmost segment equal to kind that
\* is followed by an all-digit segment which is itself followed by a slash
MatchPositions(url, kind) ==
    {k \in 1..(Len(url.path) - 1) :
        /\ url.path[k] = Seg(kind, <<>>)
        /\ IsDigits(url.path[k + 1])
        /\ (k + 1 < Len(url.path) \/ url.trail)}

IdFromUrl(url, kind) ==
    LET m == MatchPositions(url, kind)
    IN  IF m = {} THEN 0
        ELSE LET k == CHOOSE x \in m : \A y \in m : x <= y
             IN  ParseInt(url.path[k + 1].digits)

ResourceUrl(kind, n) ==
    [path |-> <<Seg("api", <<>>), Seg("v", <<2>>), Seg(kind, <<>>), Seg("", <<n>>)>>,
     trail |-> TRUE]

\* no numeric segment after the kind
MalformedUrl(kind) ==
    [path |-> <<Seg("api", <<>>), Seg("v", <<2>>), Seg(kind, <<>>), Seg("unknown", <<>>)>>,
     trail |-> TRUE]

\* the numeric segment is not followed by a slash
NoSlashUrl(kind) ==
    [path |-> <<Seg("api", <<>>), Seg("v", <<2>>), Seg(kind, <<>>), Seg("", <<1>>)>>,
     trail |-> FALSE]

ResourceNames == <<"bulbasaur", "ivysaur", "venusaur", "charmander">>

\* the index entries { name, url } the remote API may list for a kind
Entries(kind) ==
    {[name |-> ResourceNames[n], url |-> ResourceUrl(kind, n)] : n \in 1..MaxId}
        \cup {[name |-> "missingno", url |-> MalformedUrl(kind)],
              [name |-> "noslash", url |-> NoSlashUrl(kind)]}

RECURSIVE SeqsUpTo(_, _)
SeqsUpTo(S, n) ==
    IF n = 0 THEN {<<>>}
    ELSE LET shorter == SeqsUpTo(S, n - 1)
         IN  shorter \cup {Append(s, x) : s \in {t \in shorter : Len(t) = n - 1}, x \in S}

\* ----------------------------------------------------------------- sorts
\* Array.prototype.sort is stable: equal keys keep their relative order.
InsertEntryUnstable(e, s, kind) ==
    LET less == {k \in 1..Len(s) : IdFromUrl(s[k].url, kind) < IdFromUrl(e.url, kind)}
        n == Cardinality(less)
    IN  SubSeq(s, 1, n) \o <<e>> \o SubSeq(s, n + 1, Len(s))

InsertEntry(e, s, kind) ==
    LET notAfter == {k \in 1..Len(s) : IdFromUrl(s[k].url, kind) <= IdFromUrl(e.url, kind)}
        n == Cardinality(notAfter)
    IN  SubSeq(s, 1, n) \o <<e>> \o SubSeq(s, n + 1, Len(s))

RECURSIVE SortEntriesStable(_, _)
SortEntriesStable(s, kind) ==
    IF s = <<>> THEN <<>>
    ELSE InsertEntry(s[Len(s)], SortEntriesStable(SubSeq(s, 1, Len(s) - 1), kind), kind)

SortEntriesOmitted(s, kind) == s

\* results.sort((a, b) => getIdFromUrl(a.url) - getIdFromUrl(b.url))
SortEntries(s, kind) == SortEntriesStable(s, kind)

InsertRecord(r, s) ==
    LET notAfter == {k \in 1..Len(s) : s[k].id <= r.id}
        n == Cardinality(notAfter)
    IN  SubSeq(s, 1, n) \o <<r>> \o SubSeq(s, n + 1, Len(s))

RECURSIVE SortByIdStable(_)
SortByIdStable(s) ==
    IF s = <<>> THEN <<>>
    ELSE InsertRecord(s[Len(s)], SortByIdStable(SubSeq(s, 1, Len(s) - 1)))

SortByIdOmitted(s) == s

\* updated.sort((a, b) => a.id - b.id)
SortById(s) == SortByIdStable(s)

\* ------------------------------------------------- collection updaters
AlreadyPresentNever(l, prev, rec) == FALSE

\* prev.some(...): whether the updater returns prev unchanged
AlreadyPresent(l, prev, rec) ==
    CASE l \in CancellableListPages \cup {"GenerationDetailPage"} ->
            \E k \in 1..Len(prev) : prev[k].id = rec.id
      [] l = "HomeLoadAllData" ->
            \E k \in 1..Len(prev) : prev[k].id = rec.id \/ prev[k].name = rec.name
      [] OTHER -> FALSE

\* the function passed to setPokemonList / setMoves / setLocations / ...
Updater(l, prev, rec) ==
    IF AlreadyPresent(l, prev, rec) THEN prev ELSE SortById(Append(prev, rec))

\* ---------------------------------------------------------------- state
VARIABLES
    loader,      \* which loader drives this session
    index,       \* data.results as the index endpoint returns it
    pc,          \* where the loader function is suspended
    sorted,      \* the sorted copy the for-of loop walks
    pos,         \* 1-based position of the for-of loop in sorted
    cancelled,   \* the effect's `cancelled` flag
    collection,  \* pokemonList / moves / locations / pokemon state
    loading,     \* loading / locationLoading / moveLoading state
    error,       \* whether the error state holds a message
    inflight,    \* requests issued and not yet settled
    fetchLog,    \* entries whose detail fetch was issued, in issue order
    outcomes,    \* whether each issued detail fetch succeeded, and its record
    delivered,   \* entry and record of each call of the state updater, in order
    speciesList,       \* loadPokemonBatch: the index of parents
    startSpeciesIndex, \* loadPokemonBatch: argument
    targetCount,       \* loadPokemonBatch: argument
    seenPokemonNames,  \* the Set shared with the caller
    seenAtCall,        \* seenPokemonNames when the call was made
    speciesIndex,      \* loadPokemonBatch: local
    pokemonCount,      \* loadPokemonBatch: local
    groups,            \* loadPokemonBatch: local
    forms,             \* loadPokemonBatch: local of the while body
    speciesData,       \* the parsed species response of the while body
    varietyPos,        \* 1-based position of the for-of loop in varieties
    examined,          \* 0-based offsets whose species fetch was issued
    result,            \* the value the returned promise resolved to
    pokemonGroups,        \* Home: pokemonGroups state
    loadingMore,          \* Home: loadingMore state
    hasMore,              \* Home: hasMore state
    currentSpeciesIndex,  \* Home: currentSpeciesIndex state
    pastCalls,            \* Home: the loadPokemonBatch calls that returned
    closure,              \* Home: the state values the observer's callback closes over
    overlap,              \* Home: the invocation begun while another was under way
    activeTab,            \* tabbed Home: activeTab state
    indexFetches,         \* how often the index endpoint was fetched
    argUrl,               \* getPokemonIdFromUrl: the url argument
    argKind,              \* the path segment name the function's pattern holds
    extracted,            \* getPokemonIdFromUrl: the value returned
    paramName,            \* detail pages: the name parameter of the route
    sessions,             \* detail pages: the effect runs whose fetch function has not ended
    nextId,               \* detail pages: the number of the next effect run
    shown,                \* detail pages: the name of the record in pokemon / move / location state
    latestOutcome,        \* detail pages: how the request of the latest effect run settled
    areaLoading,          \* LocationDetail: areaLoading state
    areaPokemon           \* LocationDetail: areaPokemon state

streamVars ==
    <<index, sorted, pos, cancelled, collection, loading, error,
      fetchLog, outcomes, delivered>>

batchVars ==
    <<speciesList, startSpeciesIndex, targetCount, seenPokemonNames, seenAtCall,
      speciesIndex, pokemonCount, groups, forms, speciesData, varietyPos,
      examined, result>>

homeVars ==
    <<pokemonGroups, loadingMore, hasMore, currentSpeciesIndex, pastCalls,
      closure, overlap>>

\* the state of the identifier extraction and of the detail pages
detailVars ==
    <<paramName, sessions, nextId, shown, latestOutcome, areaLoading, areaPokemon>>

pageVars == <<argUrl, argKind, extracted, detailVars>>

vars ==
    <<loader, pc, inflight, streamVars, batchVars, homeVars, activeTab, indexFetches,
      pageVars>>

NoRecord == [id |-> 0, name |-> ""]

\* What one detail request can settle to.  The record carries the entry's
\* name; its id is the one the url embeds, and any id when the url embeds none.
RecordIds(entry, kind) ==
    IF IdFromUrl(entry.url, kind) = 0 THEN 1..MaxId ELSE {IdFromUrl(entry.url, kind)}

DetailOutcomes(entry, kind) ==
    {[kind |-> "ok", rec |-> [id |-> n, name |-> entry.name]] : n \in RecordIds(entry, kind)}
        \cup {[kind |-> k, rec |-> NoRecord] :
                k \in {"network_error", "http_error", "bad_body"}}

\* useState(true) for loading, useState(false) for locationLoading/moveLoading
InitialLoading(l) == l \notin HomeTabLoaders

\* the species entries and the variety names the remote API may list
SpeciesEntries ==
    {[name |-> ResourceNames[n], url |-> ResourceUrl("pokemon-species", n)] : n \in {1, 2}}

\* the pokemon a species response may list as varieties, and the id of each
VarietyNames == {ResourceNames[n] : n \in {1, 2}}

PokemonId(name) == CHOOSE n \in 1..Len(ResourceNames) : ResourceNames[n] = name

NoSpeciesData == [id |-> 0, name |-> "", varieties |-> <<>>]

NoResult == [groups |-> <<>>, nextSpeciesIndex |-> -1]

\* what a species request can settle to
SpeciesOutcomes(entry) ==
    {[kind |-> "ok",
      data |-> [id |-> IdFromUrl(entry.url, "pokemon-species"), name |-> entry.name,
                varieties |-> v]] : v \in SeqsUpTo(VarietyNames, MaxVarieties)}
        \cup {[kind |-> k, data |-> NoSpeciesData] :
                k \in {"network_error", "http_error", "bad_body"}}

\* what the request for the pokemon of a variety can settle to
PokemonOutcomes(name) ==
    {[kind |-> "ok", id |-> PokemonId(name)]}
        \cup {[kind |-> k, id |-> 0] : k \in {"network_error", "http_error", "bad_body"}}

InitStream ==
    /\ loader \in StreamLoaders
    /\ index \in SeqsUpTo(Entries(KindOf(loader)), MaxIndex)
    /\ loading = InitialLoading(loader)
    /\ speciesList = <<>>
    /\ seenPokemonNames = {}

InitBatch ==
    /\ loader = BatchLoader
    /\ index = <<>>
    /\ loading = FALSE
    /\ speciesList \in SeqsUpTo(SpeciesEntries, MaxIndex)
    /\ seenPokemonNames \in SUBSET VarietyNames

\* Home of the paged listing after construction.  Both of its calls of
\* loadPokemonBatch pass the same page size, 300 in the source; with an index
\* of at most MaxIndex parents the page size is any of 1..MaxTarget.
InitHome ==
    /\ loader = "Home"
    /\ index \in SeqsUpTo(SpeciesEntries, MaxIndex)
    /\ loading = TRUE
    /\ speciesList = <<>>
    /\ seenPokemonNames = {}
    /\ targetCount \in 1..MaxTarget

\* What the observer's callback and the loadMore it calls see: the state
\* values of the render in which the observer effect last ran, and whether
\* the observed element existed then.  On the first render loading is true
\* and the element is not rendered.
FirstRender ==
    [loadingMore |-> FALSE, hasMore |-> TRUE, currentSpeciesIndex |-> 0,
     speciesCount |-> 0, observing |-> FALSE]

\* no invocation of loadPokemonBatch has begun beside another
NoCall == [start |-> -1, examined |-> <<>>]

InitLocals ==
    /\ pc = "idle"
    /\ sorted = <<>>
    /\ pos = 0
    /\ cancelled = FALSE
    /\ collection = <<>>
    /\ error = FALSE
    /\ inflight = {}
    /\ fetchLog = <<>>
    /\ outcomes = <<>>
    /\ delivered = <<>>
    /\ startSpeciesIndex = 0
    /\ seenAtCall = {}
    /\ speciesIndex = 0
    /\ pokemonCount = 0
    /\ groups = <<>>
    /\ forms = <<>>
    /\ speciesData = NoSpeciesData
    /\ varietyPos = 0
    /\ examined = <<>>
    /\ result = NoResult
    /\ pokemonGroups = <<>>
    /\ loadingMore = FALSE
    /\ hasMore = TRUE
    /\ currentSpeciesIndex = 0
    /\ pastCalls = <<>>
    /\ closure = FirstRender
    /\ overlap = NoCall
    /\ activeTab = "pokemon"
    /\ indexFetches = 0

NoUrl == [path |-> <<>>, trail |-> FALSE]

\* useState({}) of areaPokemon and areaLoading
NoAreas == [a \in {} |-> FALSE]

\* a detail page before its effect has run: no record, no session
InitDetail ==
    /\ paramName = ""
    /\ sessions = {}
    /\ nextId = 1
    /\ shown = ""
    /\ latestOutcome = "none"
    /\ areaLoading = NoAreas
    /\ areaPokemon = NoAreas

\* no extraction and no detail page is under way
InitPages ==
    /\ argUrl = NoUrl
    /\ argKind = ""
    /\ extracted = -1
    /\ InitDetail

Init ==
    /\ (InitStream \/ InitBatch)
    /\ targetCount = 0
    /\ InitLocals
    /\ InitPages

HomeInit == InitHome /\ InitLocals /\ InitPages

\* -------------------------------------------------------------- actions
\* the tabs of the tabbed Home; "pokemon" also stands for the third tab
Tabs == {"pokemon", "locations"}

\* Whether the effect starts its loader.  The effect runs after the first
\* render and after every render that changed one of its dependencies.  The
\* effects of Home.loadLocations / loadMoves test their dependencies: the
\* tab is active, the list is empty and the loading flag is down.  The
\* cancellable pages and GenerationDetailPage run once per mount and
\* parameter; the effect of Home.loadAllData depends on pokemonList.length
\* and returns early when it is positive, and the length never returns to 0.
EffectStartsLoader(l) ==
    IF l \in HomeTabLoaders
    THEN activeTab = "locations" /\ Len(collection) = 0 /\ ~loading
    ELSE pc = "idle"

\* The effect body: the loader function runs up to its first await.
StartSession ==
    /\ loader \in StreamLoaders
    /\ pc \in {"idle", "done"}
    /\ EffectStartsLoader(loader)
    /\ indexFetches < MaxIndexFetches
    /\ indexFetches' = indexFetches + 1
    /\ pc' = "awaitIndex"
    /\ inflight' = {[kind |-> "index", pos |-> 0]}
    /\ loading' = (IF loader = "HomeLoadAllData" THEN loading ELSE TRUE)
    /\ error' = (IF HasCancellation(loader) THEN FALSE ELSE error)
    /\ collection' = (IF loader = "GenerationDetailPage" THEN <<>> ELSE collection)
    /\ UNCHANGED <<loader, index, sorted, pos, cancelled, fetchLog, outcomes, delivered>>
    /\ UNCHANGED batchVars
    /\ UNCHANGED <<homeVars, activeTab>>
    /\ UNCHANGED pageVars

\* A tab button of the tabbed Home is clicked: setActiveTab(tab).
SwitchTab ==
    /\ loader \in HomeTabLoaders
    /\ \E tab \in Tabs \ {activeTab} : activeTab' = tab
    /\ UNCHANGED <<loader, pc, inflight, streamVars, batchVars, homeVars, indexFetches>>
    /\ UNCHANGED pageVars

\* The effect cleanup.
Cancel ==
    /\ HasCancellation(loader)
    /\ pc # "idle"
    /\ ~cancelled
    /\ cancelled' = TRUE
    /\ UNCHANGED <<loader, inflight, index, pc, sorted, pos, collection, loading,
                   error, fetchLog, outcomes, delivered>>
    /\ UNCHANGED batchVars
    /\ UNCHANGED <<homeVars, activeTab, indexFetches>>
    /\ UNCHANGED pageVars

DetailRequestsFanOut(s, k) == {[kind |-> "detail", pos |-> j] : j \in k..Len(s)}

\* the requests the for-of body issues before it suspends
DetailRequests(s, k) == {[kind |-> "detail", pos |-> k]}

\* The head of the for-of loop at position k of s, up to the next await or
\* the end of the function; ld is the loading flag on entry.
LoopFrom(s, k, ld) ==
    /\ pos' = k
    /\ IF k > Len(s)
       THEN /\ pc' = "done"
            /\ inflight' = {}
            /\ fetchLog' = fetchLog
            /\ loading' = (IF loader \in HomeTabLoaders THEN FALSE ELSE ld)
       ELSE IF ChecksCancelledBeforeFetch(loader) /\ cancelled
       THEN /\ pc' = "done"
            /\ inflight' = {}
            /\ fetchLog' = fetchLog
            /\ loading' = ld
       ELSE /\ pc' = "awaitDetail"
            /\ inflight' = DetailRequests(s, k)
            /\ fetchLog' = Append(fetchLog, s[k])
            /\ loading' = ld

LoadingAfterIndexKept(l, ld) == ld

\* setLoading(false) between the sort of the index and the for-of loop; the
\* tab loaders of Home clear their flag only after the loop
LoadingAfterIndex(l, ld) == IF l \in HomeTabLoaders THEN ld ELSE FALSE

\* The index request settles with a results list.
IndexLoaded ==
    /\ pc = "awaitIndex"
    /\ [kind |-> "index", pos |-> 0] \in inflight
    /\ IF loader = "GenerationDetailPage" /\ cancelled
       THEN /\ pc' = "done"
            /\ inflight' = {}
            /\ UNCHANGED <<sorted, pos, loading, fetchLog>>
       ELSE /\ sorted' = SortEntries(index, KindOf(loader))
            /\ LoopFrom(sorted', 1, LoadingAfterIndex(loader, loading))
    /\ UNCHANGED <<loader, index, cancelled, collection, error, outcomes, delivered>>
    /\ UNCHANGED batchVars
    /\ UNCHANGED <<homeVars, activeTab, indexFetches>>
    /\ UNCHANGED pageVars

\* The index request fails: fetch rejects, or the body has no results list.
IndexFailed ==
    /\ pc = "awaitIndex"
    /\ [kind |-> "index", pos |-> 0] \in inflight
    /\ inflight' = {}
    /\ IF CatchesIndexFailure(loader)
       THEN /\ pc' = "done"
            /\ IF loader = "GenerationDetailPage" /\ cancelled
               THEN UNCHANGED <<error, loading>>
               ELSE error' = TRUE /\ loading' = FALSE
       ELSE /\ pc' = "rejected"
            /\ UNCHANGED <<error, loading>>
    /\ UNCHANGED <<loader, index, sorted, pos, cancelled, collection, fetchLog,
                   outcomes, delivered>>
    /\ UNCHANGED batchVars
    /\ UNCHANGED <<homeVars, activeTab, indexFetches>>
    /\ UNCHANGED pageVars

\* whether the loop goes on to the next entry after this failure
SkipsFailure(l, kind) ==
    \/ CatchesItemFailure(l)
    \/ kind = "http_error" /\ ChecksOk(l)

AfterSkipRetry(k) == k

\* `continue` / the empty catch block: the for-of loop moves to the next entry
AfterSkip(k) == k + 1

\* The outstanding detail request settles; the loop body finishes and the
\* loop runs on to its next await.
DetailSettled ==
    /\ pc = "awaitDetail"
    /\ \E r \in inflight, o \in DetailOutcomes(sorted[pos], KindOf(loader)) :
        /\ r.kind = "detail"
        /\ outcomes' = Append(outcomes, [ok |-> o.kind = "ok", rec |-> o.rec])
        /\ IF o.kind = "ok"
           THEN IF ChecksCancelledAfterFetch(loader) /\ cancelled
                THEN /\ pc' = "done"
                     /\ inflight' = {}
                     /\ UNCHANGED <<pos, collection, delivered, fetchLog, loading>>
                ELSE /\ delivered' = Append(delivered, [entry |-> sorted[pos], rec |-> o.rec])
                     /\ collection' = Updater(loader, collection, o.rec)
                     /\ LoopFrom(sorted, pos + 1, loading)
           ELSE IF SkipsFailure(loader, o.kind)
                THEN /\ LoopFrom(sorted, AfterSkip(pos), loading)
                     /\ UNCHANGED <<collection, delivered>>
                ELSE /\ pc' = "rejected"
                     /\ inflight' = {}
                     /\ UNCHANGED <<pos, collection, delivered, fetchLog, loading>>
    /\ UNCHANGED <<loader, index, sorted, cancelled, error>>
    /\ UNCHANGED batchVars
    /\ UNCHANGED <<homeVars, activeTab, indexFetches>>
    /\ UNCHANGED pageVars

\* ------------------------------------------------------ loadPokemonBatch
InsertGroup(x, s) ==
    LET notAfter == {k \in 1..Len(s) : s[k].forms[1].id <= x.forms[1].id}
        n == Cardinality(notAfter)
    IN  SubSeq(s, 1, n) \o <<x>> \o SubSeq(s, n + 1, Len(s))

RECURSIVE SortGroupsStable(_)
SortGroupsStable(g) ==
    IF g = <<>> THEN <<>>
    ELSE InsertGroup(g[Len(g)], SortGroupsStable(SubSeq(g, 1, Len(g) - 1)))

SortGroupsOmitted(g) == g

\* groups.sort((a, b) => a.forms[0].id - b.forms[0].id)
SortGroups(g) == SortGroupsStable(g)

AdvanceOnEmissionOnly(si, fs) == IF fs # <<>> THEN si + 1 ELSE si

\* speciesIndex++ at the end of the while body
AdvanceSpeciesIndex(si, fs) == si + 1

NextUnseenIgnoresSeen(varieties, k, seen) ==
    IF k <= Len(varieties) THEN k ELSE 0

\* the first variety at or after position k whose name is not in seen; 0 if none
NextUnseen(varieties, k, seen) ==
    LET c == {j \in k..Len(varieties) : varieties[j] \notin seen}
    IN  IF c = {} THEN 0 ELSE CHOOSE j \in c : \A m \in c : j <= m

WhileTestIgnoresCount(cnt, target, si, len) == si < len

\* while (pokemonCount < targetCount && speciesIndex < speciesList.length)
WhileTest(cnt, target, si, len) == cnt < target /\ si < len

\* The head of the while loop with the locals as given, up to the next
\* await or the return.
SpeciesLoopFrom(si, cnt, grp, ex) ==
    /\ speciesIndex' = si
    /\ pokemonCount' = cnt
    /\ IF WhileTest(cnt, targetCount', si, Len(speciesList'))
       THEN /\ pc' = "awaitSpecies"
            /\ inflight' = {[kind |-> "species", pos |-> si]}
            /\ examined' = Append(ex, si)
            /\ groups' = grp
            /\ result' = result
       ELSE /\ pc' = "returned"
            /\ inflight' = {}
            /\ examined' = ex
            /\ groups' = SortGroups(grp)
            /\ result' = [groups |-> SortGroups(grp), nextSpeciesIndex |-> si]

EmitGroupAlways(grp, data, fs) ==
    Append(grp, [speciesId |-> data.id, speciesName |-> data.name, forms |-> SortById(fs)])

\* forms.sort(...); if (forms.length > 0) groups.push({ speciesId, speciesName, forms })
EmitGroup(grp, data, fs) ==
    IF fs # <<>>
    THEN Append(grp, [speciesId |-> data.id, speciesName |-> data.name,
                      forms |-> SortById(fs)])
    ELSE grp

\* The for-of loop over data.varieties from position k with the locals as
\* given, up to the next await; at the end of the varieties the rest of the
\* while body and the next loop head.
VarietyLoopFrom(data, k, fs, seen, cnt) ==
    /\ speciesData' = data
    /\ seenPokemonNames' = seen
    /\ LET j == NextUnseen(data.varieties, k, seen)
       IN  IF j # 0
           THEN /\ pc' = "awaitPokemon"
                /\ varietyPos' = j
                /\ forms' = fs
                /\ pokemonCount' = cnt
                /\ inflight' = {[kind |-> "pokemon", pos |-> j]}
                /\ UNCHANGED <<speciesIndex, groups, examined, result>>
           ELSE /\ varietyPos' = Len(data.varieties) + 1
                /\ forms' = SortById(fs)
                /\ SpeciesLoopFrom(
                        AdvanceSpeciesIndex(speciesIndex, fs), cnt,
                        EmitGroup(groups, data, fs),
                        examined)

\* loadPokemonBatch(speciesList, start, target, seenPokemonNames) is called.
BatchCall ==
    /\ loader = BatchLoader
    /\ pc = "idle"
    /\ UNCHANGED <<loader, speciesList, seenPokemonNames, forms, speciesData, varietyPos>>
    /\ \E start \in 0..Len(speciesList), target \in 1..MaxTarget :
        /\ startSpeciesIndex' = start
        /\ targetCount' = target
        /\ seenAtCall' = seenPokemonNames
        /\ SpeciesLoopFrom(start, 0, <<>>, <<>>)
    /\ UNCHANGED streamVars
    /\ UNCHANGED <<homeVars, activeTab, indexFetches>>
    /\ UNCHANGED pageVars

\* The species request settles.
SpeciesSettled ==
    /\ pc = "awaitSpecies"
    /\ UNCHANGED <<loader, speciesList, startSpeciesIndex, targetCount, seenAtCall>>
    /\ \E r \in inflight, o \in SpeciesOutcomes(speciesList[speciesIndex + 1]) :
        /\ r.kind = "species"
        /\ IF o.kind = "ok"
           THEN VarietyLoopFrom(o.data, 1, <<>>, seenPokemonNames, pokemonCount)
           ELSE /\ pc' = "rejected"
                /\ inflight' = {}
                /\ UNCHANGED <<seenPokemonNames, speciesIndex, pokemonCount, groups,
                               forms, speciesData, varietyPos, examined, result>>
    /\ UNCHANGED streamVars
    /\ UNCHANGED <<homeVars, activeTab, indexFetches>>
    /\ UNCHANGED pageVars

AddSeenOmitted(seen, pokemonName) == seen

\* seenPokemonNames.add(pokemonName)
AddSeen(seen, pokemonName) == seen \cup {pokemonName}

\* The request for one variety's pokemon settles.
PokemonSettled ==
    /\ pc = "awaitPokemon"
    /\ UNCHANGED <<loader, speciesList, startSpeciesIndex, targetCount, seenAtCall>>
    /\ \E r \in inflight, o \in PokemonOutcomes(speciesData.varieties[varietyPos]) :
        /\ r.kind = "pokemon"
        /\ IF o.kind = "ok"
           THEN LET pokemonName == speciesData.varieties[varietyPos]
                IN  VarietyLoopFrom(
                        speciesData, varietyPos + 1,
                        Append(forms, [id |-> o.id, name |-> pokemonName]),
                        AddSeen(seenPokemonNames, pokemonName),
                        pokemonCount + 1)
           ELSE /\ pc' = "rejected"
                /\ inflight' = {}
                /\ UNCHANGED <<seenPokemonNames, speciesIndex, pokemonCount, groups,
                               forms, speciesData, varietyPos, examined, result>>
    /\ UNCHANGED streamVars
    /\ UNCHANGED <<homeVars, activeTab, indexFetches>>
    /\ UNCHANGED pageVars

\* ------------------------------------------------- Home (paged listing)
\* The mount effect: loadInitialData runs up to its first await.
LoadInitialData ==
    /\ loader = "Home"
    /\ pc = "idle"
    /\ indexFetches < MaxIndexFetches
    /\ indexFetches' = indexFetches + 1
    /\ pc' = "awaitIndex"
    /\ inflight' = {[kind |-> "index", pos |-> 0]}
    /\ UNCHANGED <<loader, streamVars, batchVars, homeVars, activeTab>>
    /\ UNCHANGED pageVars

\* The species index arrives: setSpeciesList(data.results), then the first
\* call loadPokemonBatch(data.results, 0, 300, seenPokemonNamesRef.current)
\* runs up to its first await.
HomeIndexLoaded ==
    /\ loader = "Home"
    /\ pc = "awaitIndex"
    /\ [kind |-> "index", pos |-> 0] \in inflight
    /\ speciesList' = index
    /\ startSpeciesIndex' = 0
    /\ seenAtCall' = seenPokemonNames
    /\ UNCHANGED <<loader, targetCount, seenPokemonNames, forms, speciesData, varietyPos>>
    /\ SpeciesLoopFrom(0, 0, <<>>, <<>>)
    /\ UNCHANGED <<streamVars, homeVars, activeTab, indexFetches>>
    /\ UNCHANGED pageVars

\* The index request fails: fetch rejects, the body is not JSON, or it has
\* no results list.  loadInitialData has no try/catch, so its promise
\* rejects and nothing after the await runs.
HomeIndexFailed ==
    /\ loader = "Home"
    /\ pc = "awaitIndex"
    /\ [kind |-> "index", pos |-> 0] \in inflight
    /\ pc' = "rejected"
    /\ inflight' = {}
    /\ UNCHANGED <<loader, streamVars, batchVars, homeVars, activeTab, indexFetches>>
    /\ UNCHANGED pageVars

\* the values the observer effect and loadMore depend on, as the state
\* holds them now
Deps ==
    [loadingMore |-> loadingMore, hasMore |-> hasMore,
     currentSpeciesIndex |-> currentSpeciesIndex,
     speciesCount |-> Len(speciesList)]

DepsOf(c) ==
    [loadingMore |-> c.loadingMore, hasMore |-> c.hasMore,
     currentSpeciesIndex |-> c.currentSpeciesIndex,
     speciesCount |-> c.speciesCount]

\* React renders Home with the current state.  loadMore is recreated and
\* the observer effect runs again only when one of their dependencies
\* changed; the old observer stops observing and a new one, whose callback
\* closes over this render's values, observes the element if it is
\* rendered (loading is false).
Render ==
    /\ loader = "Home"
    /\ pc \in {"ready", "awaitSpecies", "awaitPokemon", "rejected"}
    /\ DepsOf(closure) # Deps
    /\ closure' = [loadingMore |-> loadingMore, hasMore |-> hasMore,
                   currentSpeciesIndex |-> currentSpeciesIndex,
                   speciesCount |-> Len(speciesList), observing |-> ~loading]
    /\ UNCHANGED <<loader, pc, inflight, streamVars, batchVars, activeTab, indexFetches>>
    /\ UNCHANGED <<pokemonGroups, loadingMore, hasMore, currentSpeciesIndex,
                   pastCalls, overlap>>
    /\ UNCHANGED pageVars

\* the argument loadMore passes as startSpeciesIndex: the value its closure
\* holds
NextCallStart == closure.currentSpeciesIndex

\* the test of the observer's callback and of loadMore, over the values
\* their closure holds
GuardOfLoadMore(c) ==
    /\ c.observing
    /\ c.hasMore /\ ~c.loadingMore
    /\ ~(c.loadingMore \/ ~c.hasMore \/ c.speciesCount = 0)

\* The observed element intersects and the callback's test passes; loadMore
\* runs up to its first await.  When no invocation of loadPokemonBatch is
\* under way the new one is followed to its end; when one is, the new
\* invocation is recorded with the offset it examines first and the listing
\* is followed no further.
LoadMore ==
    /\ loader = "Home"
    /\ pc \in {"ready", "rejected", "awaitSpecies", "awaitPokemon"}
    /\ GuardOfLoadMore(closure)
    /\ Len(pastCalls) < MaxCalls
    /\ loadingMore' = TRUE
    /\ IF pc \in {"ready", "rejected"}
       THEN /\ startSpeciesIndex' = NextCallStart
            /\ seenAtCall' = seenPokemonNames
            /\ UNCHANGED <<loader, speciesList, targetCount, seenPokemonNames, forms,
                           speciesData, varietyPos>>
            /\ SpeciesLoopFrom(NextCallStart, 0, <<>>, <<>>)
            /\ UNCHANGED overlap
       ELSE /\ overlap' = [start |-> NextCallStart,
                           examined |-> IF NextCallStart < Len(speciesList)
                                        THEN <<NextCallStart>> ELSE <<>>]
            /\ pc' = "overlapped"
            /\ UNCHANGED <<loader, inflight, batchVars>>
    /\ UNCHANGED <<pokemonGroups, hasMore, currentSpeciesIndex, pastCalls, closure>>
    /\ UNCHANGED <<streamVars, activeTab, indexFetches>>
    /\ UNCHANGED pageVars

\* loadPokemonBatch has returned: the rest of loadInitialData or of loadMore.
BatchReturned ==
    /\ loader = "Home"
    /\ pc = "returned"
    /\ pc' = "ready"
    /\ pastCalls' = Append(pastCalls, [start |-> startSpeciesIndex,
                                       examined |-> examined,
                                       seenAtCall |-> seenAtCall,
                                       groups |-> result.groups,
                                       nextSpeciesIndex |-> result.nextSpeciesIndex])
    /\ IF loading
       THEN /\ pokemonGroups' = result.groups
            /\ currentSpeciesIndex' = result.nextSpeciesIndex
            /\ loading' = FALSE
            /\ UNCHANGED <<hasMore, loadingMore>>
       ELSE /\ IF result.groups = <<>> \/ result.nextSpeciesIndex >= Len(speciesList)
               THEN /\ hasMore' = FALSE
                    /\ UNCHANGED <<pokemonGroups, currentSpeciesIndex>>
               ELSE /\ hasMore' = hasMore
                    /\ pokemonGroups' = SortGroups(pokemonGroups \o result.groups)
                    /\ currentSpeciesIndex' = result.nextSpeciesIndex
            /\ loadingMore' = FALSE
            /\ loading' = loading
    /\ UNCHANGED <<closure, overlap>>
    /\ UNCHANGED <<loader, inflight, index, sorted, pos, cancelled, collection, error,
                   fetchLog, outcomes, delivered>>
    /\ UNCHANGED <<batchVars, activeTab, indexFetches>>
    /\ UNCHANGED pageVars

Next ==
    \/ StartSession
    \/ SwitchTab
    \/ Cancel
    \/ IndexLoaded
    \/ IndexFailed
    \/ DetailSettled
    \/ BatchCall
    \/ SpeciesSettled
    \/ PokemonSettled

Spec == Init /\ [][Next]_vars

HomeNext ==
    \/ LoadInitialData
    \/ HomeIndexLoaded
    \/ HomeIndexFailed
    \/ SpeciesSettled
    \/ PokemonSettled
    \/ BatchReturned
    \/ Render
    \/ LoadMore

HomeSpec == HomeInit /\ [][HomeNext]_vars

\* --------------------------------------- a list page whose fetches settle
\* One mount of a cancellable list page.  The mount effect runs, and the
\* remote API answers every request or the request fails: each outstanding
\* fetch settles in the end.
ListPageInit ==
    /\ InitStream
    /\ loader \in CancellableListPages
    /\ targetCount = 0
    /\ InitLocals
    /\ InitPages

ListPageNext ==
    \/ StartSession
    \/ Cancel
    \/ IndexLoaded
    \/ IndexFailed
    \/ DetailSettled

ListPageSpec ==
    /\ ListPageInit
    /\ [][ListPageNext]_vars
    /\ WF_vars(StartSession)
    /\ WF_vars(IndexFailed \/ IndexLoaded)
    /\ WF_vars(DetailSettled)

\* ------------------------------------------------ identifier extraction
\* the digit strings, words and kinds the urls are built from
DigitStrings == {<<>>, <<7>>, <<0, 7>>, <<1, 0>>}

Words == {"", "pokemon", "move"}

Kinds == {"pokemon", "move"}

\* every url of at most MaxPath segments, with and without a final slash
Urls ==
    {[path |-> p, trail |-> t] :
        p \in SeqsUpTo({Seg(w, d) : w \in Words, d \in DigitStrings}, MaxPath),
        t \in BOOLEAN}

\* getPokemonIdFromUrl / getMoveIdFromUrl is about to be called on any url
ExtractInit ==
    /\ loader = "getIdFromUrl"
    /\ index = <<>>
    /\ loading = FALSE
    /\ speciesList = <<>>
    /\ seenPokemonNames = {}
    /\ targetCount = 0
    /\ InitLocals
    /\ argUrl \in Urls
    /\ argKind \in Kinds
    /\ extracted = -1
    /\ InitDetail

\* The call: url.match(...) and parseInt, or 0.
Extract ==
    /\ loader = "getIdFromUrl"
    /\ pc = "idle"
    /\ pc' = "done"
    /\ extracted' = IdFromUrl(argUrl, argKind)
    /\ UNCHANGED <<loader, inflight, streamVars, batchVars, homeVars, activeTab,
                   indexFetches, argUrl, argKind, detailVars>>

ExtractNext == Extract

ExtractSpec == ExtractInit /\ [][ExtractNext]_vars

\* ---------------------------------------------------------- detail pages
\* PokemonDetail.fetchPokemon and MoveDetail.fetchMove: one request per run
\* of the effect, which runs on mount and whenever the name parameter
\* changes while the page stays mounted.
DetailPages == {"PokemonDetail", "MoveDetail"}

\* the names a route parameter may take
ParamNames == {ResourceNames[n] : n \in 1..3}

\* `let cancelled = false` in the effect and a cleanup that sets it
HasCleanup(l) == l \in {"MoveDetail", "LocationDetail"}

\* the cleanup of the effect runs for every earlier run
Cleanup(l, ss) ==
    IF HasCleanup(l) THEN {[s EXCEPT !.cancelled = TRUE] : s \in ss} ELSE ss

NewSession(id, n) ==
    [id |-> id, name |-> n, cancelled |-> FALSE, stage |-> "record", areas |-> <<>>, k |-> 0]

DetailInit ==
    /\ loader \in DetailPages
    /\ index = <<>>
    /\ loading = TRUE
    /\ speciesList = <<>>
    /\ seenPokemonNames = {}
    /\ targetCount = 0
    /\ InitLocals
    /\ InitPages

\* The page mounts with a name, or the name changes: the cleanup of the
\* earlier run, then fetchPokemon / fetchMove up to its await.
DetailFetchStarts ==
    /\ loader \in DetailPages
    /\ nextId <= MaxSessions
    /\ \E n \in ParamNames \ {paramName} :
        /\ paramName' = n
        /\ sessions' = Cleanup(loader, sessions) \cup {NewSession(nextId, n)}
    /\ nextId' = nextId + 1
    /\ latestOutcome' = "none"
    /\ loading' = TRUE
    /\ pc' = "mounted"
    /\ UNCHANGED <<loader, inflight, batchVars, homeVars, activeTab, indexFetches>>
    /\ UNCHANGED <<index, sorted, pos, cancelled, collection, error, fetchLog,
                   outcomes, delivered>>
    /\ UNCHANGED <<argUrl, argKind, extracted, shown, areaLoading, areaPokemon>>

\* what a request for one record can settle to
RequestOutcomes == {"ok", "http_error", "network_error", "bad_body"}

\* A request settles, in any order among those outstanding: the rest of
\* fetchPokemon / fetchMove.  MoveDetail tests its cancelled flag before
\* every state update; PokemonDetail has no flag.
DetailResponse ==
    /\ loader \in DetailPages
    /\ \E s \in sessions, o \in RequestOutcomes :
        /\ sessions' = sessions \ {s}
        /\ latestOutcome' = (IF s.id = nextId - 1
                              THEN (IF o = "ok" THEN "ok" ELSE "failed")
                              ELSE latestOutcome)
        /\ IF s.cancelled
           THEN UNCHANGED <<shown, error, loading>>
           ELSE /\ shown' = (IF o = "ok" THEN s.name ELSE shown)
                /\ error' = (o # "ok")
                /\ loading' = FALSE
    /\ UNCHANGED <<loader, pc, inflight, batchVars, homeVars, activeTab, indexFetches>>
    /\ UNCHANGED <<index, sorted, pos, cancelled, collection, fetchLog, outcomes, delivered>>
    /\ UNCHANGED <<argUrl, argKind, extracted, paramName, nextId, areaLoading, areaPokemon>>

DetailNext ==
    \/ DetailFetchStarts
    \/ DetailResponse

DetailSpec == DetailInit /\ [][DetailNext]_vars

\* ------------------------------------------------------- LocationDetail
\* the names the route parameter of LocationDetail may take
LocationNames == {"canalave-city", "eterna-city"}

\* the area names a location response may list
AreaNames == {"area-1", "area-2"}

\* String.prototype.localeCompare on the names of the model
AlphaOrder == <<"bulbasaur", "charmander", "ivysaur", "venusaur">>

RECURSIVE NamesFrom(_, _)
\* Array.from(new Set(names)).sort((a, b) => a.localeCompare(b))
NamesFrom(S, k) ==
    IF k > Len(AlphaOrder) THEN <<>>
    ELSE (IF AlphaOrder[k] \in S THEN <<AlphaOrder[k]>> ELSE <<>>) \o NamesFrom(S, k + 1)

\* the pokemon_encounters lists an area response may hold
EncounterLists == {<<>>, <<"ivysaur", "bulbasaur", "ivysaur">>}

\* (prev) => ({ ...prev, [key]: value })
WithKey(m, key, value) ==
    [a \in DOMAIN m \cup {key} |-> IF a = key THEN value ELSE m[a]]

FlagAfterSettleKept(al, area) == al

\* finally { setAreaLoading((prev) => ({ ...prev, [area.name]: false })) }
FlagAfterSettle(al, area) == WithKey(al, area, FALSE)

LocationInit ==
    /\ loader = "LocationDetail"
    /\ index = <<>>
    /\ loading = TRUE
    /\ speciesList = <<>>
    /\ seenPokemonNames = {}
    /\ targetCount = 0
    /\ InitLocals
    /\ InitPages

\* The page mounts with a name, or the name changes: the cleanup of the
\* earlier run, then fetchLocation up to its first await.
LocationFetchStarts ==
    /\ loader = "LocationDetail"
    /\ nextId <= MaxLocationSessions
    /\ \E n \in LocationNames \ {paramName} :
        /\ paramName' = n
        /\ sessions' = Cleanup(loader, sessions) \cup {NewSession(nextId, n)}
    /\ nextId' = nextId + 1
    /\ latestOutcome' = "none"
    /\ loading' = TRUE
    /\ areaPokemon' = NoAreas
    /\ areaLoading' = NoAreas
    /\ pc' = "mounted"
    /\ UNCHANGED <<loader, inflight, batchVars, homeVars, activeTab, indexFetches>>
    /\ UNCHANGED <<index, sorted, pos, cancelled, collection, error, fetchLog,
                   outcomes, delivered>>
    /\ UNCHANGED <<argUrl, argKind, extracted, shown>>

\* The head of the for-of loop over the areas at position k for the run s,
\* which is not cancelled, up to the next await or the end of
\* fetchLocation; al is the areaLoading state on entry.
AreaLoopFrom(s, areas, k, al) ==
    IF k > Len(areas)
    THEN /\ sessions' = sessions \ {s}
         /\ areaLoading' = al
         /\ loading' = FALSE
    ELSE /\ sessions' = (sessions \ {s})
                \cup {[s EXCEPT !.stage = "area", !.areas = areas, !.k = k]}
         /\ areaLoading' = WithKey(al, areas[k], TRUE)
         /\ loading' = loading

\* The location request of a run settles.  A cancelled run returns, or its
\* catch and finally blocks find the flag set: it updates nothing.
LocationResponse ==
    /\ loader = "LocationDetail"
    /\ \E s \in sessions :
        /\ s.stage = "record"
        /\ \E o \in RequestOutcomes, areas \in SeqsUpTo(AreaNames, MaxAreas) :
            /\ o # "ok" => areas = <<>>
            /\ latestOutcome' = (IF s.id = nextId - 1
                                  THEN (IF o = "ok" THEN "ok" ELSE "failed")
                                  ELSE latestOutcome)
            /\ IF s.cancelled
               THEN /\ sessions' = sessions \ {s}
                    /\ UNCHANGED <<shown, error, loading, areaLoading>>
               ELSE IF o = "ok"
               THEN /\ shown' = s.name
                    /\ error' = FALSE
                    /\ AreaLoopFrom(s, areas, 1, areaLoading)
               ELSE /\ sessions' = sessions \ {s}
                    /\ error' = TRUE
                    /\ loading' = FALSE
                    /\ UNCHANGED <<shown, areaLoading>>
    /\ UNCHANGED <<loader, pc, inflight, batchVars, homeVars, activeTab, indexFetches>>
    /\ UNCHANGED <<index, sorted, pos, cancelled, collection, fetchLog, outcomes, delivered>>
    /\ UNCHANGED <<argUrl, argKind, extracted, paramName, nextId, areaPokemon>>

\* The request for one area settles.  A run that is not cancelled records
\* the encounters of an OK response, clears the area's flag in the finally
\* block and goes on with the loop; a cancelled run breaks out of the loop
\* and updates nothing.
AreaResponse ==
    /\ loader = "LocationDetail"
    /\ \E s \in sessions :
        /\ s.stage = "area"
        /\ \E o \in RequestOutcomes, enc \in EncounterLists :
            /\ o # "ok" => enc = <<>>
            /\ IF s.cancelled
               THEN /\ sessions' = sessions \ {s}
                    /\ UNCHANGED <<areaPokemon, areaLoading, loading>>
               ELSE /\ areaPokemon' =
                        (IF o = "ok"
                         THEN WithKey(areaPokemon, s.areas[s.k],
                                      NamesFrom({enc[j] : j \in 1..Len(enc)}, 1))
                         ELSE areaPokemon)
                    /\ AreaLoopFrom(s, s.areas, s.k + 1,
                                    FlagAfterSettle(areaLoading, s.areas[s.k]))
    /\ UNCHANGED <<loader, pc, inflight, batchVars, homeVars, activeTab, indexFetches>>
    /\ UNCHANGED <<index, sorted, pos, cancelled, collection, error, fetchLog,
                   outcomes, delivered>>
    /\ UNCHANGED <<argUrl, argKind, extracted, paramName, nextId, shown, latestOutcome>>

LocationNext ==
    \/ LocationFetchStarts
    \/ LocationResponse
    \/ AreaResponse

LocationSpec == LocationInit /\ [][LocationNext]_vars

\* ---------------------------------------------------------- properties
IsSortedById(s) == \A a, b \in 1..Len(s) : a < b => s[a].id <= s[b].id

IsStrictlyAscendingById(s) == \A a, b \in 1..Len(s) : a < b => s[a].id < s[b].id

IsPrefix(s, t) == Len(s) <= Len(t) /\ SubSeq(t, 1, Len(s)) = s

EntryId(e) == IdFromUrl(e.url, KindOf(loader))

IdSeq(s) == [k \in 1..Len(s) |-> EntryId(s[k])]

WithId(s, n) == LET Test(e) == EntryId(e) = n IN SelectSeq(s, Test)

\* every sequence with the same multiset of elements as s
Perms(s) == {[k \in 1..Len(s) |-> s[f[k]]] : f \in Permutations(1..Len(s))}

OkCount(o) == Cardinality({k \in 1..Len(o) : o[k].ok})

AnyItemFailed == \E k \in 1..Len(outcomes) : ~outcomes[k].ok

\* C1: in every progressive single-stream loader the accumulated collection
\* is sorted ascending by record id in every reachable state.
C1_CollectionSorted == loader \in StreamLoaders => IsSortedById(collection)

\* records arrived with ids out of order, one fetch failed, and the
\* collection holds at least two records
C1_Witness ==
    /\ loader \in StreamLoaders
    /\ Len(collection) >= 2
    /\ AnyItemFailed
    /\ \E a, b \in 1..Len(delivered) : a < b /\ delivered[a].rec.id > delivered[b].rec.id

\* C2: for all inputs the accumulated collection of a progressive
\* single-stream loader is strictly ascending by id, so it never holds two
\* records with the same id.
C2_StrictlyAscending ==
    loader \in StreamLoaders => IsStrictlyAscendingById(collection)

\* C3: after the cleanup has set cancelled, no record is handed to the state
\* updater and the accumulated collection does not change.
C3_NoDeliveryAfterCancel ==
    [][cancelled => (delivered' = delivered /\ collection' = collection)]_vars

\* C4: once cancelled is set no further detail fetch is issued; only a
\* request already outstanding at that time can still settle.
C4_NoFetchAfterCancel ==
    [][cancelled => (fetchLog' = fetchLog /\ (inflight = {} => inflight' = {}))]_vars

\* cancelled in mid-stream: the outstanding request settled, the loop
\* stopped, and entries remain that were never fetched
C4_Witness ==
    /\ loader \in CancellableListPages
    /\ cancelled
    /\ pc = "done"
    /\ Len(fetchLog) >= 1
    /\ Len(fetchLog) < Len(sorted)
    /\ Len(outcomes) = Len(fetchLog)

\* C5: a failed detail fetch is skipped: the stream is not aborted, the error
\* state stays unset, and a stream that ends has fetched every entry and
\* holds a record for every id a successful fetch returned.
C5_ItemFailureSkipped ==
    loader \in StreamLoaders =>
        /\ AnyItemFailed => (pc # "rejected" /\ ~error)
        /\ (pc = "done" /\ ~cancelled /\ outcomes # <<>>) =>
            /\ Len(fetchLog) = Len(sorted)
            /\ {collection[k].id : k \in 1..Len(collection)}
                 = {outcomes[k].rec.id : k \in {j \in 1..Len(outcomes) : outcomes[j].ok}}

\* C6: a failed species or variety fetch does not reject the batch.
C6_BatchToleratesFailure == loader = BatchLoader => pc # "rejected"

\* C7: records are handed to the updater in ascending order of the id
\* extracted from their index entry's url: of two delivered entries, the one
\* with the smaller extracted id is delivered first.
C7_DeliveredAscending ==
    loader \in StreamLoaders =>
        \A a, b \in 1..Len(delivered) :
            EntryId(delivered[a].entry) < EntryId(delivered[b].entry) => a < b

\* three entries with three different extracted ids, listed out of order by
\* the index, have all been delivered
C7_Witness ==
    /\ loader \in {"PokemonListPage", "GenerationDetailPage"}
    /\ Len(delivered) = 3
    /\ Cardinality({EntryId(delivered[k].entry) : k \in 1..3}) = 3
    /\ \E a, b \in 1..Len(index) : a < b /\ EntryId(index[a]) > EntryId(index[b])

\* C8 as stated: whichever permutation of the index the endpoint returns, the
\* same entries are fetched in the same sequence.
C8_SameSequenceForPermutations ==
    loader \in StreamLoaders =>
        \A p \in Perms(index) : IsPrefix(fetchLog, SortEntries(p, KindOf(loader)))

\* C8 amended: whichever permutation of the index the endpoint returns, the
\* entries are fetched in a sequence that carries the same extracted ids
\* position by position, and entries with equal extracted ids are fetched in
\* their index order.  The loop walks `sorted`, which is fixed from the
\* moment the loop starts (pos = 1).
C8_SameIdsForPermutations ==
    loader \in StreamLoaders =>
        /\ IsPrefix(fetchLog, sorted)
        /\ pos = 1 =>
            /\ \A p \in Perms(index) :
                 IdSeq(SortEntries(p, KindOf(loader))) = IdSeq(sorted)
            /\ \A n \in 0..MaxId : WithId(sorted, n) = WithId(index, n)

\* every entry of an out-of-order index was fetched, two of them different
\* entries with the same extracted id
C8_Witness ==
    /\ loader \in StreamLoaders
    /\ Len(index) = 3
    /\ Len(fetchLog) = 3
    /\ index # sorted
    /\ \E a, b \in 1..3 : index[a] # index[b] /\ EntryId(index[a]) = EntryId(index[b])

\* C9: at most one request is outstanding; a progressive loader issues the
\* next detail fetch only when every earlier one has settled and its record
\* has been handed to the updater, and the batched loader has nothing else
\* outstanding while it waits for a species or a variety.
C9_OneOutstanding ==
    /\ Cardinality(inflight) <= 1
    /\ (loader \in StreamLoaders /\ pc = "awaitDetail") =>
        /\ Len(outcomes) = Len(fetchLog) - 1
        /\ Len(delivered) = OkCount(outcomes)
    /\ (loader = BatchLoader /\ pc = "awaitPokemon") =>
        inflight = {[kind |-> "pokemon", pos |-> varietyPos]}

\* the second detail fetch is outstanding after the first record was delivered
C9_Witness ==
    /\ loader \in StreamLoaders
    /\ pc = "awaitDetail"
    /\ Len(fetchLog) >= 2
    /\ Len(delivered) >= 1
    /\ Cardinality(inflight) = 1

\* C10: when loadPokemonBatch returns, nextSpeciesIndex is the start offset
\* plus the number of parents examined; the parents examined are contiguous
\* offsets from the start, and start <= nextSpeciesIndex <= len(index).
C10_NextIndexAfterLastExamined ==
    (loader = BatchLoader /\ pc = "returned") =>
        /\ result.nextSpeciesIndex = startSpeciesIndex + Len(examined)
        /\ \A k \in 1..Len(examined) : examined[k] = startSpeciesIndex + k - 1
        /\ startSpeciesIndex <= result.nextSpeciesIndex
        /\ result.nextSpeciesIndex <= Len(speciesList)

\* a call from a non-zero offset returned after examining two parents, one
\* of which produced no group
C10_Witness ==
    /\ loader = BatchLoader
    /\ pc = "returned"
    /\ startSpeciesIndex > 0
    /\ Len(examined) >= 2
    /\ Len(result.groups) < Len(examined)

RECURSIVE Flatten(_)
\* the concatenation of a sequence of sequences
Flatten(ss) ==
    IF ss = <<>> THEN <<>> ELSE Flatten(SubSeq(ss, 1, Len(ss) - 1)) \o ss[Len(ss)]

NoDuplicates(s) == \A a, b \in 1..Len(s) : a < b => s[a] # s[b]

\* the member names of a sequence of groups, in order
NamesOf(g) ==
    Flatten([k \in 1..Len(g) |-> [j \in 1..Len(g[k].forms) |-> g[k].forms[j].name]])

NameSet(g) == {NamesOf(g)[k] : k \in 1..Len(NamesOf(g))}

CallInProgress == pc \in {"awaitSpecies", "awaitPokemon", "returned", "rejected"}

\* the offsets examined by all the calls of this listing, in order
AllExamined ==
    Flatten([k \in 1..Len(pastCalls) |-> pastCalls[k].examined])
        \o (IF CallInProgress THEN examined ELSE <<>>)

\* the member names in the groups all the calls returned, in order
AllEmitted == Flatten([k \in 1..Len(pastCalls) |-> NamesOf(pastCalls[k].groups)])

\* every call so far started at the nextSpeciesIndex the call before
\* returned, the first at 0
Chained ==
    /\ \A k \in 1..Len(pastCalls) :
            pastCalls[k].start = IF k = 1 THEN 0 ELSE pastCalls[k - 1].nextSpeciesIndex
    /\ CallInProgress =>
            startSpeciesIndex = IF pastCalls = <<>> THEN 0
                                ELSE pastCalls[Len(pastCalls)].nextSpeciesIndex

\* C11: when loadPokemonBatch is called repeatedly, each call starting at
\* the nextSpeciesIndex the call before returned and all sharing one
\* seen-set, the offsets examined over all the calls are 0, 1, 2, ... each
\* once, all of them once a call has returned the length of the index; no
\* member name is in two returned groups, and no call returns a name that
\* was in the seen-set when it was made.
C11_ResumptionExaminesOnce ==
    loader = "Home" =>
        /\ Chained =>
                /\ \A k \in 1..Len(AllExamined) : AllExamined[k] = k - 1
                /\ (pc = "ready" /\ pastCalls[Len(pastCalls)].nextSpeciesIndex = Len(speciesList)) =>
                        Len(AllExamined) = Len(speciesList)
        /\ NoDuplicates(AllEmitted)
        /\ \A k \in 1..Len(pastCalls) :
                NameSet(pastCalls[k].groups) \cap pastCalls[k].seenAtCall = {}

\* three calls went through an index of three parents; the second and the
\* third each examined a parent, and a parent listed a member that an
\* earlier call had already emitted
C11_Witness ==
    /\ loader = "Home"
    /\ pc = "ready"
    /\ Chained
    /\ Len(pastCalls) = 3
    /\ Len(speciesList) = 3
    /\ pastCalls[3].nextSpeciesIndex = 3
    /\ pastCalls[2].examined # <<>>
    /\ pastCalls[3].examined # <<>>
    /\ pastCalls[2].groups # <<>>
    /\ pastCalls[3].groups = <<>>

IsSortedByFirstForm(g) ==
    \A a, b \in 1..Len(g) : a < b => g[a].forms[1].id <= g[b].forms[1].id

\* C12: every group loadPokemonBatch returns has at least one form, its
\* forms are sorted ascending by id, and the groups are sorted ascending by
\* the id of their first form.
C12_GroupsSorted ==
    (loader = BatchLoader /\ pc = "returned") =>
        /\ \A k \in 1..Len(result.groups) :
                /\ result.groups[k].forms # <<>>
                /\ IsSortedById(result.groups[k].forms)
        /\ IsSortedByFirstForm(result.groups)

\* two groups were returned in the reverse of the order in which their
\* parents were examined
C12_Witness ==
    /\ loader = BatchLoader
    /\ pc = "returned"
    /\ Len(result.groups) = 2
    /\ Len(examined) = 2
    /\ result.groups[1].speciesName = speciesList[examined[2] + 1].name
    /\ result.groups[2].speciesName = speciesList[examined[1] + 1].name
    /\ result.groups[1].speciesName # result.groups[2].speciesName

\* C13: when a species response lists only names that are already in the
\* seen-set (or lists none), loadPokemonBatch pushes no group and leaves
\* pokemonCount as it is, and speciesIndex still advances by one; no group
\* with an empty forms list is ever held or returned.
C13_AllSeenParentSkipped ==
    [][ /\ (/\ loader = BatchLoader
            /\ pc = "awaitSpecies"
            /\ pc' # "rejected"
            /\ \A j \in 1..Len(speciesData'.varieties) :
                    speciesData'.varieties[j] \in seenPokemonNames)
            => /\ Len(groups') = Len(groups)
               /\ pokemonCount' = pokemonCount
               /\ speciesIndex' = speciesIndex + 1
               /\ seenPokemonNames' = seenPokemonNames
        /\ \A k \in 1..Len(groups') : groups'[k].forms # <<>>
        /\ \A k \in 1..Len(result'.groups) : result'.groups[k].forms # <<>>
      ]_vars

\* after one parent produced a group, the next parent listed only names
\* that were in the seen-set when the call was made, and the loop went on
C13_Witness ==
    /\ loader = BatchLoader
    /\ pc = "awaitSpecies"
    /\ Len(examined) = 3
    /\ Len(groups) = 1
    /\ pokemonCount = 1
    /\ forms = <<>>
    /\ speciesData.varieties # <<>>
    /\ \A j \in 1..Len(speciesData.varieties) : speciesData.varieties[j] \in seenAtCall

\* C14: within one listing lifecycle the index endpoint is fetched at most
\* once, whatever the tab switches and whatever the index holds.
C14_IndexFetchedOnce == indexFetches <= 1

\* C15: a detail record is fetched at most once per identity.  Once the
\* fetch for an index entry has succeeded and its record is in the
\* collection, no later fetch is issued for an entry of the same name; the
\* batched loader never has a request outstanding for a name in the seen-set.
C15_FetchedOncePerIdentity ==
    /\ loader \in StreamLoaders =>
            \A a, b \in 1..Len(fetchLog) :
                (a < b /\ a <= Len(outcomes) /\ outcomes[a].ok)
                    => fetchLog[a].name # fetchLog[b].name
    /\ (loader \in {BatchLoader, "Home"} /\ pc = "awaitPokemon") =>
            speciesData.varieties[varietyPos] \notin seenPokemonNames

\* C16: when the index request of a session that is not cancelled fails,
\* the loader ends with the error state set and the loading flag down, no
\* detail fetch issued or outstanding, and an empty collection.
C16_IndexFailureSurfaced ==
    [][(IndexFailed /\ ~cancelled) =>
            /\ pc' = "done"
            /\ error'
            /\ ~loading'
            /\ inflight' = {}
            /\ fetchLog' = <<>>
            /\ collection' = <<>>]_vars

\* C17: no failure is retried.  The detail fetches issued are those of the
\* entries of the sorted index in order, one per entry; an entry whose fetch
\* failed is not handed to the updater, and every record of the collection
\* came from a successful fetch.
C17_NoRetry ==
    loader \in StreamLoaders =>
        /\ IsPrefix(fetchLog, sorted)
        /\ Len(outcomes) <= Len(fetchLog)
        /\ Len(delivered) <= OkCount(outcomes)
        /\ \A j \in 1..Len(delivered) :
                \E k \in 1..Len(outcomes) :
                    /\ outcomes[k].ok
                    /\ fetchLog[k] = delivered[j].entry
                    /\ outcomes[k].rec = delivered[j].rec
        /\ \A k \in 1..Len(collection) :
                \E j \in 1..Len(delivered) : delivered[j].rec = collection[k]

\* the fetch of the first of three different entries failed, the two after
\* it were fetched and delivered, and the stream has ended
C17_Witness ==
    /\ loader \in CancellableListPages
    /\ pc = "done"
    /\ ~cancelled
    /\ Len(sorted) = 3
    /\ Len(outcomes) = 3
    /\ ~outcomes[1].ok
    /\ outcomes[2].ok /\ outcomes[3].ok
    /\ Len(collection) = 2
    /\ \A k \in 2..3 : sorted[k].name # sorted[1].name

\* the loaders whose updater tests prev.some(...) before it inserts
DedupLoaders == CancellableListPages \cup {"GenerationDetailPage", "HomeLoadAllData"}

\* C18: inserting an identity that is already present changes nothing.  When
\* the updater of a list page or of Home.loadAllData is applied to a record
\* whose id is already in the collection, the collection stays as it is, in
\* size and in order; adding to the seen-set a name it already holds leaves
\* the set as it is.
C18_ReinsertIsNoOp ==
    [][ /\ (/\ loader \in DedupLoaders
            /\ Len(delivered') = Len(delivered) + 1
            /\ \E k \in 1..Len(collection) :
                    collection[k].id = delivered'[Len(delivered')].rec.id)
            => collection' = collection
        /\ \A n \in seenPokemonNames' :
                AddSeen(seenPokemonNames', n) = seenPokemonNames'
      ]_vars

\* the third record delivered carried an id that one of the two records
\* already in the collection had, and the collection still holds two
C18_Witness ==
    /\ loader \in DedupLoaders
    /\ Len(delivered) = 3
    /\ Len(collection) = 2
    /\ collection[1].id # collection[2].id
    /\ delivered[3].rec \notin {collection[1], collection[2]}
    /\ delivered[3].rec.id \in {collection[1].id, collection[2].id}

\* C19: no two records of one accumulated collection have the same name,
\* also when their ids differ.
C19_UniqueNames ==
    loader \in DedupLoaders =>
        \A a, b \in 1..Len(collection) : a < b => collection[a].name # collection[b].name

\* C20: the per-tab loading flag of the tabbed Home is reset once the last
\* entry has been processed, whether its fetches succeeded or failed: a
\* loader that has processed entries and has nothing outstanding has reset
\* the flag, and while entries are being processed the flag is not reset
\* before the last one.
C20_CompletionFiresOnce ==
    loader \in HomeTabLoaders =>
        /\ (outcomes # <<>> /\ inflight = {}) =>
                (~loading /\ Len(outcomes) = Len(sorted))
        /\ pc = "done" => (~loading /\ Len(outcomes) = Len(sorted))
        /\ (fetchLog # <<>> /\ ~loading) =>
                (pc = "done" /\ Len(outcomes) = Len(sorted))

RECURSIVE DecimalFrom(_, _, _)
\* the digits of d from position k on, read as a decimal number after acc
DecimalFrom(d, k, acc) ==
    IF k > Len(d) THEN acc ELSE DecimalFrom(d, k + 1, acc * 10 + d[k])

\* the segments of the url that are the kind, are followed by a segment of
\* digits only, and that segment by a slash
KindThenNumber(u, k) ==
    {j \in 1..Len(u.path) :
        /\ u.path[j].word = k /\ u.path[j].digits = <<>>
        /\ j < Len(u.path)
        /\ u.path[j + 1].word = "" /\ Len(u.path[j + 1].digits) >= 1
        /\ (j + 1 = Len(u.path) => u.trail)}

\* C21: identifier extraction returns a value for every url and kind: the
\* number in the segment after the first '/<kind>/' that is followed by an
\* all-digit segment and a slash, and 0 when the url has no such place (no
\* numeric segment, another kind, no slash after the number).
C21_ExtractionTotal ==
    (loader = "getIdFromUrl" /\ pc = "done") =>
        /\ extracted \in Nat
        /\ KindThenNumber(argUrl, argKind) = {} => extracted = 0
        /\ \A j \in KindThenNumber(argUrl, argKind) :
                (\A i \in KindThenNumber(argUrl, argKind) : j <= i)
                    => extracted = DecimalFrom(argUrl.path[j + 1].digits, 1, 0)

\* the number was taken from the second occurrence of the kind, the first
\* being followed by a word, and its leading zero was dropped
C21_Witness ==
    /\ loader = "getIdFromUrl"
    /\ pc = "done"
    /\ argUrl = [path |-> <<Seg(argKind, <<>>), Seg(argKind, <<>>), Seg("", <<0, 7>>)>>,
                 trail |-> TRUE]
    /\ extracted = 7

\* the invocations of loadPokemonBatch under way for the listing
InvocationsInProgress ==
    (IF pc \in {"awaitSpecies", "awaitPokemon"} \/ overlap # NoCall THEN 1 ELSE 0)
        + (IF overlap # NoCall THEN 1 ELSE 0)

\* C22: however intersection signals, renders and fetch completions
\* interleave, at most one invocation of loadPokemonBatch is under way for
\* the Home listing, so no two invocations examine the same index offset at
\* the same time.
C22_SingleWriter ==
    loader = "Home" =>
        /\ InvocationsInProgress <= 1
        /\ \A k \in 1..Len(overlap.examined) :
                \A j \in 1..Len(examined) : overlap.examined[k] # examined[j]
\* C23: loadPokemonBatch examines a further parent only while pokemonCount
\* is below targetCount and the index is not exhausted; when it returns,
\* pokemonCount has reached targetCount or nextSpeciesIndex is the length
\* of the index; and when it has finished with a parent, every variety of
\* that parent that was not in the seen-set is in a group of this call, so
\* pokemonCount may pass targetCount.
C23_WholeParents ==
    [][ loader = BatchLoader =>
          /\ examined' # examined =>
                /\ pokemonCount' < targetCount'
                /\ speciesIndex' < Len(speciesList')
                /\ examined' = Append(examined, speciesIndex')
          /\ pc' = "returned" =>
                /\ pokemonCount' >= targetCount'
                      \/ result'.nextSpeciesIndex = Len(speciesList')
                /\ result'.nextSpeciesIndex = speciesIndex'
                /\ result'.groups = groups'
          /\ (pc \in {"awaitSpecies", "awaitPokemon"} /\ speciesIndex' = speciesIndex + 1) =>
                \A k \in 1..Len(speciesData'.varieties) :
                    \/ speciesData'.varieties[k] \in seenAtCall
                    \/ speciesData'.varieties[k] \in NameSet(groups')
      ]_vars

\* a call returned before the end of the index with more members than its
\* targetCount: the last parent it examined had two unseen varieties
C23_Witness ==
    /\ loader = BatchLoader
    /\ pc = "returned"
    /\ pokemonCount > targetCount
    /\ result.nextSpeciesIndex < Len(speciesList)
    /\ Len(result.groups[Len(result.groups)].forms) = 2
\* the names of the members fetched for the parent under examination
FormNames == {forms[k].name : k \in 1..Len(forms)}

\* C24: a call of loadPokemonBatch only adds to the seen-set.  When it has
\* returned, the set is its value at the call together with exactly the
\* names of the members in the returned groups, none of which was in it
\* at the call; a name is in the set only once its detail record has been
\* fetched, never while the fetch is outstanding.
C24_SeenSetFrame ==
    (loader = BatchLoader /\ pc # "idle") =>
        /\ seenAtCall \subseteq seenPokemonNames
        /\ pc = "returned" =>
                /\ seenPokemonNames = seenAtCall \cup NameSet(result.groups)
                /\ seenAtCall \cap NameSet(result.groups) = {}
        /\ pc \in {"awaitSpecies", "awaitPokemon", "rejected"} =>
                seenPokemonNames = seenAtCall \cup NameSet(groups) \cup FormNames
        /\ pc = "awaitPokemon" =>
                speciesData.varieties[varietyPos] \notin seenPokemonNames

\* a call that was made with a name in the seen-set returned a group, and
\* the last parent it examined listed a name that was in the set at the call
C24_Witness ==
    /\ loader = BatchLoader
    /\ pc = "returned"
    /\ seenAtCall # {}
    /\ result.groups # <<>>
    /\ \E k \in 1..Len(speciesData.varieties) : speciesData.varieties[k] \in seenAtCall
    /\ seenPokemonNames # seenAtCall
\* the loaders that clear the loading flag before their for-of loop
ClearsLoadingBeforeLoop == CancellableListPages \cup {"HomeLoadAllData"}

\* C25: in PokemonListPage.loadPokemon (and the list pages like it) and in
\* Home.loadAllData the loading flag is false from the step that receives
\* the index response on: it is never true while a detail fetch is
\* outstanding or after one was issued.
C25_LoadingClearedBeforeDetails ==
    loader \in ClearsLoadingBeforeLoop =>
        /\ pc \in {"awaitDetail", "done"} => ~loading
        /\ (\E r \in inflight : r.kind = "detail") => ~loading
        /\ fetchLog # <<>> => ~loading
        /\ (pc = "awaitIndex" /\ indexFetches = 1) => loading

\* the first detail fetch of a list page is outstanding, nothing has been
\* delivered yet and the flag is already false
C25_Witness ==
    /\ loader \in CancellableListPages
    /\ pc = "awaitDetail"
    /\ Len(fetchLog) = 1
    /\ outcomes = <<>>
    /\ collection = <<>>
    /\ ~loading
\* the displayed groups that hold the name n
GroupsHolding(n) ==
    {k \in 1..Len(pokemonGroups) :
        \E j \in 1..Len(pokemonGroups[k].forms) : pokemonGroups[k].forms[j].name = n}

\* C26: every batch that returned to Home with at least one group has its
\* groups in pokemonGroups, the batch whose nextSpeciesIndex reached the
\* end of the index included; once hasMore is false every name in the
\* seen-set is in exactly one displayed group.
C26_EveryBatchMerged ==
    (loader = "Home" /\ pc = "ready" /\ Chained) =>
        /\ \A k \in 1..Len(pastCalls) :
                NameSet(pastCalls[k].groups) \subseteq NameSet(pokemonGroups)
        /\ ~hasMore =>
                \A n \in seenPokemonNames : Cardinality(GroupsHolding(n)) = 1
\* C27: a loadMore that set loadingMore to true sets it back to false
\* whatever its fetches settle to: while the flag is true, the call that
\* set it is still waiting for a response or is about to clear it.
C27_LoadingMoreCleared ==
    (loader = "Home" /\ loadingMore /\ overlap = NoCall) =>
        pc \in {"awaitSpecies", "awaitPokemon", "returned"}
\* the loader function has run to its end
Finished ==
    /\ pc = "done"
    /\ inflight = {}
    /\ \/ error /\ fetchLog = <<>>
       \/ /\ ~error
          /\ fetchLog = SortEntries(index, KindOf(loader))
          /\ Len(outcomes) = Len(index)

\* C28: when every fetch settles and the session is not cancelled, the
\* progressive loader of a list page finishes, either with the index error
\* shown or having issued one detail fetch per index entry in sorted order
\* and seen each of them settle.  While a detail fetch is outstanding
\* nothing is fetched and nothing finishes except by its settling: a fetch
\* that never settles stalls the stream.
C28_StreamTerminates ==
    /\ <>(cancelled \/ Finished)
    /\ [][ (pc = "awaitDetail" /\ (fetchLog' # fetchLog \/ pc' # pc)) =>
                Len(outcomes') = Len(outcomes) + 1 ]_vars

\* a session that was not cancelled finished over an index of two or more
\* entries, one of whose detail fetches had failed
C28_Witness ==
    /\ loader \in CancellableListPages
    /\ pc = "done"
    /\ ~cancelled
    /\ ~error
    /\ Len(index) >= 2
    /\ Len(fetchLog) = Len(index)
    /\ \E k \in 1..Len(outcomes) : ~outcomes[k].ok
\* C29: on PokemonDetail and MoveDetail the request of the latest name
\* decides what is shown.  While it is outstanding the page is loading;
\* once it has settled the record shown is the one of the current name and
\* no error is shown, or its error is shown; a response for an earlier
\* name that arrives late changes none of this.
C29_LatestNameWins ==
    (loader \in DetailPages /\ pc = "mounted") =>
        /\ latestOutcome = "none" => loading
        /\ latestOutcome = "ok" => shown = paramName /\ ~error /\ ~loading
        /\ latestOutcome = "failed" => error /\ ~loading

\* the runs of fetchLocation that are not cancelled and have not ended
LiveSessions == {s \in sessions : ~s.cancelled}

\* the areas whose loading flag is true
AreasLoading == {a \in DOMAIN areaLoading : areaLoading[a]}

\* C30: LocationDetail loads its areas one at a time.  At most one area
\* fetch of a run that is not cancelled is outstanding and at most one area
\* flag is true, that of the area being fetched; the flag of every area
\* whose fetch settled (OK, not OK or failed) is false again; and the page
\* flag loading stays true until the last area has been processed.
C30_AreasOneAtATime ==
    (loader = "LocationDetail" /\ pc = "mounted") =>
        /\ Cardinality(LiveSessions) <= 1
        /\ Cardinality(AreasLoading) <= 1
        /\ \A s \in LiveSessions :
                /\ loading
                /\ s.id = nextId - 1
                /\ s.stage = "record" => AreasLoading = {}
                /\ s.stage = "area" =>
                        /\ AreasLoading = {s.areas[s.k]}
                        /\ \A j \in 1..(s.k - 1) :
                                /\ s.areas[j] \in DOMAIN areaLoading
                                /\ s.areas[j] # s.areas[s.k] => ~areaLoading[s.areas[j]]
        /\ LiveSessions = {} => (~loading /\ AreasLoading = {})

\* after a change of name, with the earlier run still waiting, the second
\* of two different areas is being fetched: its flag is true and the flag
\* of the first one, whose request was answered not OK, is false again
C30_Witness ==
    /\ loader = "LocationDetail"
    /\ nextId > 2
    /\ \E c \in sessions : c.cancelled
    /\ \E s \in LiveSessions :
            /\ s.stage = "area"
            /\ s.k = 2
            /\ s.areas[1] # s.areas[2]
            /\ areaLoading[s.areas[1]] = FALSE
            /\ areaLoading[s.areas[2]] = TRUE
            /\ s.areas[1] \notin DOMAIN areaPokemon
====
